---- MODULE Spec2Model ----
(***************************************************************************)
(* A model of github_analyzer.py: the URL validator, the memoised profile  *)
(* analysis (validation, upstream fetch, aggregation, error translation)   *)
(* and the /analyze endpoint that presents its outcome.                    *)
(*                                                                         *)
(* Python values are represented as follows.                               *)
(*   str              a sequence of one-character strings (URLs, user      *)
(*                    names) or, for fixed message texts and names that    *)
(*                    are only compared, a TLA+ string                     *)
(*   dict             a sequence of <<key, value>> pairs with distinct     *)
(*                    keys, in insertion order                             *)
(*   None / absent    the empty sequence <<>>; a present value v is <<v>>  *)
(*   datetime         seconds since an epoch; a date is a day number       *)
(*   float quotient   an exact fraction [num, den]                         *)
(***************************************************************************)
EXTENDS Integers, Sequences, FiniteSets, TLC

VARIABLES
    clock,      \* wall clock (time.time() / datetime.now()), in seconds
    cache,      \* the memoize store: raw URL -> <<>> or <<[expires, value]>>
    puts,       \* history: raw URL -> <<>> or <<[at, value]>>, the last store
    last,       \* history: what the most recent request did, <<>> before any
    user,       \* the upstream data the aggregation is run on when run alone
    results     \* the analysis_results of that run, <<>> before it

vars == <<clock, cache, puts, last, user, results>>

(***************************************************************************)
(* Strings                                                                 *)
(***************************************************************************)
Lower == {"a","b","c","d","e","f","g","h","i","j","k","l","m",
          "n","o","p","q","r","s","t","u","v","w","x","y","z"}
Upper == {"A","B","C","D","E","F","G","H","I","J","K","L","M",
          "N","O","P","Q","R","S","T","U","V","W","X","Y","Z"}
Digits == {"0","1","2","3","4","5","6","7","8","9"}

\* The character class [a-zA-Z0-9_-] of the validator's pattern.
IdentChars == Lower \cup Upper \cup Digits \cup {"_", "-"}

\* The characters str.strip() removes.
Whitespace == {" ", "\t", "\n", "\r"}

Drop(s, n) == SubSeq(s, n + 1, Len(s))

HasPrefix(s, p) == Len(s) >= Len(p) /\ SubSeq(s, 1, Len(p)) = p

\* s without an optional leading p.
SkipOptional(s, p) == IF HasPrefix(s, p) THEN Drop(s, Len(p)) ELSE s

\* Length of the longest prefix of s made of characters of class.
RECURSIVE RunLength(_, _)
RunLength(s, class) ==
    IF s # <<>> /\ Head(s) \in class THEN 1 + RunLength(Tail(s), class) ELSE 0

RECURSIVE LStrip(_)
LStrip(s) == IF s # <<>> /\ Head(s) \in Whitespace THEN LStrip(Tail(s)) ELSE s

RECURSIVE RStrip(_)
RStrip(s) ==
    IF s # <<>> /\ s[Len(s)] \in Whitespace
    THEN RStrip(SubSeq(s, 1, Len(s) - 1))
    ELSE s

Strip(s) == RStrip(LStrip(s))

\* Index of the first occurrence of character c in s, or Len(s) + 1.
RECURSIVE IndexOf(_, _)
IndexOf(s, c) ==
    IF s = <<>> \/ Head(s) = c THEN 1 ELSE 1 + IndexOf(Tail(s), c)

(***************************************************************************)
(* URL texts                                                               *)
(***************************************************************************)
Http == <<"h","t","t","p">>
Https == <<"h","t","t","p","s">>
Ftp == <<"f","t","p">>
SchemeSep == <<":","/","/">>
WwwDot == <<"w","w","w",".">>
GithubCom == <<"g","i","t","h","u","b",".","c","o","m">>
ExampleCom == <<"e","x","a","m","p","l","e",".","c","o","m">>
Slash == <<"/">>
Alice == <<"a","l","i","c","e">>
Bob_1 == <<"B","o","b","_","1","-","x">>
ADotB == <<"a",".","b">>
RepoSegment == <<"/","r","e","p","o">>
QueryString == <<"?","t","=","1">>
Newline == <<"\n">>

\* A URL as its author means it: scheme, host, first path segment and what
\* follows that segment.
Render(d) == d.scheme \o SchemeSep \o d.host \o Slash \o d.segment \o d.rest

(***************************************************************************)
(* validate_github_url                                                     *)
(***************************************************************************)
ValueError(text, detail) == [type |-> "ValueError", text |-> text, detail |-> detail]

UnboundLocalError == [type |-> "UnboundLocalError", text |-> "username", detail |-> ""]

Returned(v) == [raised |-> FALSE, value |-> v]

Raised(e) == [raised |-> TRUE, exc |-> e]

\* '$' of a pattern without re.MULTILINE: at the end, or just before a final newline.
AtDollar(s) == s = <<>> \/ s = Newline

\* The pattern without its '/?$': anything may follow the user name.
TailMatchesUnanchored(s) == TRUE

\* The tail of the pattern after the user name: '/?$'.
TailMatches(s) == AtDollar(SkipOptional(s, Slash))

\* re.match(r'^https?://(www\.)?github\.com/[a-zA-Z0-9_-]+/?$', url).  Every
\* optional or repeated part of the pattern is followed by a character it cannot
\* itself match, so matching never has to backtrack.
MatchesGithubUrl(url) ==
    /\ HasPrefix(url, Http)
    /\ LET afterScheme == SkipOptional(Drop(url, Len(Http)), <<"s">>) IN
       /\ HasPrefix(afterScheme, SchemeSep)
       /\ LET afterWww == SkipOptional(Drop(afterScheme, Len(SchemeSep)), WwwDot) IN
          /\ HasPrefix(afterWww, GithubCom \o Slash)
          /\ LET path == Drop(afterWww, Len(GithubCom) + 1)
                 n == RunLength(path, IdentChars)
             IN  n >= 1 /\ TailMatches(Drop(path, n))

validate_github_url(url) ==
    IF url = <<>>
    THEN Raised(ValueError("URL cannot be empty", ""))
    ELSE IF ~MatchesGithubUrl(url)
         THEN Raised(ValueError("Invalid GitHub URL format", ""))
         ELSE Returned(Strip(url))

\* extract_username_from_url is called at line 260 and defined nowhere in the
\* file.  It is modelled from its documented contract: the first segment of the
\* URL's path, i.e. what stands between the '/' that ends the host and the next
\* '/', '?' or '#' (or the end).
extract_username_from_url(url) ==
    LET afterScheme == Drop(url, IndexOf(url, ":") + 2)
        path == Drop(afterScheme, IndexOf(afterScheme, "/"))
        stop == CHOOSE n \in 1..(Len(path) + 1) :
                    /\ n = Len(path) + 1 \/ path[n] \in {"/", "?", "#"}
                    /\ \A m \in 1..(n - 1) : path[m] \notin {"/", "?", "#"}
    IN  Strip(SubSeq(path, 1, stop - 1))

(***************************************************************************)
(* dict, Counter and sorted()                                              *)
(***************************************************************************)
DictKeys(d) == {d[i][1] : i \in 1..Len(d)}

\* d.get(k, default)
DictGet(d, k, default) ==
    IF k \in DictKeys(d)
    THEN d[CHOOSE i \in 1..Len(d) : d[i][1] = k][2]
    ELSE default

\* d[k] = v: a present key keeps its place, a new key goes last.
DictSet(d, k, v) ==
    IF k \in DictKeys(d)
    THEN [i \in 1..Len(d) |-> IF d[i][1] = k THEN <<k, v>> ELSE d[i]]
    ELSE Append(d, <<k, v>>)

\* s[:n]
Take(s, n) == SubSeq(s, 1, IF Len(s) < n THEN Len(s) ELSE n)

\* How many items of an already sorted list stay in front of a new item whose
\* value is v, when the order comes from sorting ascending and reversing the
\* outcome: an equal value that came earlier ends up behind.
RankBeforeReversedTies(sorted, v) == Cardinality({i \in 1..Len(sorted) : sorted[i][2] > v})

\* The same for sorted(..., reverse=True), which is stable: items of equal value
\* keep the order they came in.
RankBefore(sorted, v) == Cardinality({i \in 1..Len(sorted) : sorted[i][2] >= v})

\* sorted(items, key=lambda x: x[1], reverse=True), as an insertion sort.
RECURSIVE SortedByValueDesc(_)
SortedByValueDesc(items) ==
    IF items = <<>>
    THEN <<>>
    ELSE LET sorted == SortedByValueDesc(SubSeq(items, 1, Len(items) - 1))
             item == items[Len(items)]
             n == RankBefore(sorted, item[2])
         IN  SubSeq(sorted, 1, n) \o <<item>> \o Drop(sorted, n)

\* sorted(keys) of distinct integers.
RECURSIVE SortedAscending(_)
SortedAscending(keys) ==
    IF keys = {}
    THEN <<>>
    ELSE LET least == CHOOSE k \in keys : \A other \in keys : k <= other
         IN  <<least>> \o SortedAscending(keys \ {least})

(***************************************************************************)
(* analyze_github_profile: the aggregation, lines 266-339                  *)
(***************************************************************************)
SecondsPerDay == 86400

ActivityWindowDays == 30

TopLanguageCount == 5

\* datetime.date(), and str() of it: the calendar day, as a day number.
DateOf(timestamp) == timestamp \div SecondsPerDay

\* event.created_at > datetime.now() - timedelta(days=30), with the clock as
\* read for this event.
IsRecent(created_at, now) == created_at > now - ActivityWindowDays * SecondsPerDay

\* The loop over the events: nows[i] is what datetime.now() returns while
\* event i is examined.
RECURSIVE CountEvents(_, _, _)
CountEvents(events, nows, event_counts) ==
    IF events = <<>>
    THEN event_counts
    ELSE LET date == DateOf(Head(events))
             counted == IF IsRecent(Head(events), Head(nows))
                        THEN DictSet(event_counts, date, DictGet(event_counts, date, 0) + 1)
                        ELSE event_counts
         IN  CountEvents(Tail(events), Tail(nows), counted)

\* if repo.stargazers_count > max_stars
IsNewMaximum(stars, max_stars) == stars > max_stars

\* The inner loop over repo.get_languages().items().
RECURSIVE AddLanguages(_, _, _)
AddLanguages(acc, repo, items) ==
    IF items = <<>>
    THEN acc
    ELSE LET lang == Head(items)[1]
             bytes_count == Head(items)[2]
             next == [acc EXCEPT
                        !.languages = DictSet(@, lang, DictGet(@, lang, 0) + bytes_count),
                        !.repo_languages = Append(@, [name |-> repo.name,
                                                      language |-> lang,
                                                      stars |-> repo.stargazers_count,
                                                      forks |-> repo.forks_count])]
         IN  AddLanguages(next, repo, Tail(items))

\* One pass of 'for repo in repos'.
AddRepo(acc, repo) ==
    LET starred == [acc EXCEPT !.total_stars = @ + repo.stargazers_count]
        tracked == IF IsNewMaximum(repo.stargazers_count, acc.max_stars)
                   THEN [starred EXCEPT !.max_stars = repo.stargazers_count,
                                        !.most_starred_repo = <<repo.name>>]
                   ELSE starred
    IN  AddLanguages(tracked, repo, repo.languages)

RECURSIVE AddRepos(_, _)
AddRepos(acc, repos) ==
    IF repos = <<>> THEN acc ELSE AddRepos(AddRepo(acc, Head(repos)), Tail(repos))

\* total_stars // repo_count in place of the true division.
FloorAverage(total_stars, repo_count) ==
    IF repo_count > 0
    THEN [num |-> total_stars \div repo_count, den |-> 1]
    ELSE [num |-> 0, den |-> 1]

\* total_stars / repo_count if repo_count > 0 else 0
avg_stars_per_repo(total_stars, repo_count) ==
    IF repo_count > 0
    THEN [num |-> total_stars, den |-> repo_count]
    ELSE [num |-> 0, den |-> 1]

\* The names of sorted(languages.items(), ...)[:5].
top_languages(languages) ==
    LET top == Take(SortedByValueDesc(languages), TopLanguageCount)
    IN  [i \in 1..Len(top) |-> top[i][1]]

\* language_counts[lang] = 1 in place of the increment.
RECURSIVE FlagLanguages(_, _)
FlagLanguages(repo_languages, language_counts) ==
    IF repo_languages = <<>>
    THEN language_counts
    ELSE FlagLanguages(Tail(repo_languages),
                       DictSet(language_counts, Head(repo_languages).language, 1))

\* The loop that groups the (repository, language) entries by language.
RECURSIVE CountLanguages(_, _)
CountLanguages(repo_languages, language_counts) ==
    IF repo_languages = <<>>
    THEN language_counts
    ELSE LET lang == Head(repo_languages).language
         IN  CountLanguages(Tail(repo_languages),
                            DictSet(language_counts, lang, DictGet(language_counts, lang, 0) + 1))

\* The body of analyze_github_profile from the upstream data u on.
analysis_results(username, u, nows) ==
    LET event_counts == CountEvents(u.events, nows, <<>>)
        dates == SortedAscending(DictKeys(event_counts))
        acc == AddRepos([languages |-> <<>>, total_stars |-> 0, most_starred_repo |-> <<>>,
                         max_stars |-> 0, repo_languages |-> <<>>], u.repos)
        language_counts == CountLanguages(acc.repo_languages, <<>>)
    IN  [username |-> username,
         repo_count |-> u.public_repos,
         followers |-> u.followers,
         following |-> u.following,
         created_at |-> DateOf(u.created_at),
         last_active |-> DateOf(u.updated_at),
         total_stars |-> acc.total_stars,
         top_languages |-> top_languages(acc.languages),
         avg_stars_per_repo |-> avg_stars_per_repo(acc.total_stars, u.public_repos),
         most_starred_repo |-> acc.most_starred_repo,
         repo_languages |-> [i \in 1..Len(language_counts) |->
                                [language |-> language_counts[i][1],
                                 count |-> language_counts[i][2]]],
         activity_dates |-> dates,
         activity_counts |-> [i \in 1..Len(dates) |-> DictGet(event_counts, dates[i], 0)]]

(***************************************************************************)
(* analyze_github_profile: the whole body, and its memoisation             *)
(***************************************************************************)
\* @cache.memoize(timeout=3600), and CACHE_DEFAULT_TIMEOUT
TTL == 3600

\* What the upstream API can answer to the calls of lines 263-303.
GithubException(status) ==
    [type |-> "GithubException", status |-> status, text |-> "upstream response body", detail |-> ""]

ConnectionError == [type |-> "ConnectionError", text |-> "internal detail", detail |-> ""]

\* The two except clauses, lines 341-351; str(e) is e.text.  username is <<>>
\* when the exception came before line 260 bound it: the f-string of either
\* logger.error call then raises UnboundLocalError, which leaves the function in
\* place of a ValueError.
translate_exception(e, username) ==
    IF username = <<>>
    THEN Raised(UnboundLocalError)
    ELSE IF e.type = "GithubException"
         THEN IF e.status = 404
              THEN Raised(ValueError("GitHub profile not found", ""))
              ELSE IF e.status = 403
                   THEN Raised(ValueError("API rate limit exceeded or authentication required", ""))
                   ELSE Raised(ValueError("GitHub API error: ", e.text))
         ELSE Raised(ValueError("An unexpected error occurred: ", e.text))

\* The undecorated function.  fetch is what the upstream calls do: hand over the
\* user's data, or raise.
analyze_github_profile(github_url, fetch, nows) ==
    LET validation == validate_github_url(github_url)
    IN  IF validation.raised
        THEN translate_exception(validation.exc, <<>>)
        ELSE LET username == extract_username_from_url(validation.value)
             IN  IF fetch.raised
                 THEN translate_exception(fetch.exc, <<username>>)
                 ELSE Returned(analysis_results(username, fetch.value, nows))

\* A key made of the user the URL names, in place of the argument itself.
KeyByUsername(github_url) == extract_username_from_url(Strip(github_url))

\* memoize keys an entry by the function's arguments: the URL as passed in.
make_cache_key(github_url) == github_url

\* An entry that has reached its expiry time is still served.
FreshThroughExpiry(entry, now) == entry.expires >= now

\* The simple cache serves an entry while its expiry time lies in the future.
IsFresh(entry, now) == entry.expires > now

\* cache.get: <<value>> on a hit, <<>> on a miss.
CacheGet(c, key, now) ==
    IF c[key] # <<>> /\ IsFresh(c[key][1], now) THEN <<c[key][1].value>> ELSE <<>>

\* cache.set with the memoize timeout.
CacheSet(c, key, value, now) ==
    [c EXCEPT ![key] = <<[expires |-> now + TTL, value |-> value]>>]

(***************************************************************************)
(* analyze: the /analyze endpoint                                          *)
(***************************************************************************)
NoError == [text |-> "", detail |-> ""]

Response(status, error, body) == [status |-> status, error |-> error, results |-> body]

\* jsonify of the outcome of analyze_github_profile, lines 367-374.
Present(outcome) ==
    IF ~outcome.raised
    THEN Response(200, NoError, <<outcome.value>>)
    ELSE IF outcome.exc.type = "ValueError"
         THEN Response(400, [text |-> outcome.exc.text, detail |-> outcome.exc.detail], <<>>)
         ELSE Response(500, [text |-> "An unexpected error occurred", detail |-> ""], <<>>)

(***************************************************************************)
(* Inputs                                                                  *)
(***************************************************************************)
MaxPeriods == 2     \* the clock runs up to MaxPeriods * TTL
MaxRepos == 2       \* repositories of an aggregated user
MaxEvents == 2      \* events of an aggregated user

\* The requests made of the endpoint: the two spellings of one profile the
\* documentation names, URLs with something after the user name, a foreign host,
\* a URL without a user name, and the empty string.
RequestShapes ==
    { [scheme |-> Https, host |-> GithubCom, segment |-> Alice, rest |-> <<>>],
      [scheme |-> Http, host |-> WwwDot \o GithubCom, segment |-> Alice, rest |-> Slash],
      [scheme |-> Https, host |-> GithubCom, segment |-> Alice, rest |-> RepoSegment],
      [scheme |-> Https, host |-> GithubCom, segment |-> Alice, rest |-> QueryString],
      [scheme |-> Https, host |-> ExampleCom, segment |-> Alice, rest |-> <<>>],
      [scheme |-> Https, host |-> GithubCom, segment |-> <<>>, rest |-> <<>>] }

Requests == {Render(d) : d \in RequestShapes} \cup {<<>>}

CacheKeys == {make_cache_key(u) : u \in Requests}

\* The URLs the validator alone is run on.
UrlShapes ==
    [scheme : {Http, Https, Ftp},
     host : {GithubCom, WwwDot \o GithubCom, ExampleCom},
     segment : {Alice, Bob_1, ADotB, <<>>},
     rest : {<<>>, Slash, RepoSegment, QueryString, Newline}]

StarChoices == {0, 5, 10}

LanguageDicts ==
    { <<>>,
      << <<"Go", 100>> >>,
      << <<"Go", 50>>, <<"Rust", 200>> >>,
      << <<"Rust", 100>>, <<"Go", 100>> >>,
      << <<"C", 0>>, <<"Go", 50>> >>,
      << <<"Java", 50>>, <<"C", 100>>, <<"Python", 50>> >>,
      << <<"Python", 100>>, <<"JavaScript", 100>>, <<"Ruby", 100>>, <<"Rust", 300>> >>,
      << <<"Go", 100>>, <<"C", 100>>, <<"Java", 100>>, <<"Shell", 100>> >> }

RepoNames == <<"a", "b", "c", "d">>

Profile(public_repos, repos, events) ==
    [public_repos |-> public_repos, followers |-> 3, following |-> 1,
     created_at |-> 0, updated_at |-> SecondsPerDay + 1,
     repos |-> repos, events |-> events]

Repo(i, stars, languages) ==
    [name |-> RepoNames[i], stargazers_count |-> stars, forks_count |-> 1,
     languages |-> languages]

RepoLists ==
    UNION { { [i \in 1..n |-> Repo(i, shape[i][1], shape[i][2])] :
                shape \in [1..n -> StarChoices \X LanguageDicts] } : n \in 0..MaxRepos }

\* The aggregation starts at Now0; events lie around the far edge of the window
\* that ends there, and inside it.
Now0 == 40 * SecondsPerDay

WindowEdge == Now0 - ActivityWindowDays * SecondsPerDay

EventTimes == {WindowEdge - 1, WindowEdge, WindowEdge + 1, Now0 - SecondsPerDay, Now0 - 1}

EventLists == UNION { [1..n -> EventTimes] : n \in 0..MaxEvents }

\* What datetime.now() returns over n successive readings that begin at start.
ClockReadings(start, n) ==
    { nows \in [1..n -> {start, start + 1}] : \A i \in 1..(n - 1) : nows[i] <= nows[i + 1] }

AggregatorInputs ==
    { Profile(public_repos, repos, <<>>) : public_repos \in 0..MaxRepos, repos \in RepoLists }
    \cup { Profile(0, <<>>, events) : events \in EventLists }

\* What the upstream holds for the profile at the time of a fetch.
UpstreamUsers ==
    { Profile(2, << Repo(1, 5, << <<"Go", 100>> >>),
                    Repo(2, 10, << <<"Go", 50>>, <<"Rust", 200>> >>) >>, <<>>),
      Profile(0, <<>>, <<>>) }

Fetches ==
    {Returned(u) : u \in UpstreamUsers}
    \cup {Raised(GithubException(status)) : status \in {404, 403, 500}}
    \cup {Raised(ConnectionError)}

(***************************************************************************)
(* The service: requests and the passing of time                           *)
(***************************************************************************)
Init ==
    /\ clock = 0
    /\ cache = [k \in CacheKeys |-> <<>>]
    /\ puts = [u \in Requests |-> <<>>]
    /\ last = <<>>
    /\ user = <<>>
    /\ results = <<>>

\* POST /analyze with github_url, lines 360-374 and, behind the memoize
\* decorator, lines 254-351.  The request limiter in front of the endpoint is
\* not part of the model.
analyze(github_url, fetch, nows) ==
    LET required == github_url # <<>>
        cached == IF required THEN CacheGet(cache, make_cache_key(github_url), clock) ELSE <<>>
        called == required /\ cached = <<>>
        fetched == called /\ ~validate_github_url(github_url).raised
        outcome == IF called
                   THEN analyze_github_profile(github_url, fetch, nows)
                   ELSE Returned(cached[1])
        stored == called /\ ~outcome.raised
        response == IF required
                    THEN Present(outcome)
                    ELSE Response(400, [text |-> "GitHub URL is required", detail |-> ""], <<>>)
    IN  /\ cache' = IF stored
                    THEN CacheSet(cache, make_cache_key(github_url), outcome.value, clock)
                    ELSE cache
        /\ puts' = IF stored
                   THEN [puts EXCEPT ![github_url] = <<[at |-> clock, value |-> outcome.value]>>]
                   ELSE puts
        /\ last' = <<[url |-> github_url,
                      at |-> clock,
                      prior |-> puts[github_url],
                      hit |-> cached # <<>>,
                      fetch |-> IF fetched THEN <<fetch>> ELSE <<>>,
                      response |-> response]>>
        /\ clock' = IF nows = <<>> THEN clock ELSE nows[Len(nows)]
        /\ UNCHANGED <<user, results>>

\* Time passes between requests.
Tick(seconds) ==
    /\ clock + seconds <= MaxPeriods * TTL
    /\ clock' = clock + seconds
    /\ UNCHANGED <<cache, puts, last, user, results>>

\* Whether a request for github_url gets as far as the upstream calls: it is not
\* answered at line 365, not served from the cache, and passes the validator.
ReachesUpstream(github_url) ==
    /\ github_url # <<>>
    /\ CacheGet(cache, make_cache_key(github_url), clock) = <<>>
    /\ ~validate_github_url(github_url).raised

\* The upstream answers only a request that reaches it.
Unasked == Raised([type |-> "Unasked", text |-> "", detail |-> ""])

Answers(github_url) == IF ReachesUpstream(github_url) THEN Fetches ELSE {Unasked}

Next ==
    \/ \E github_url \in Requests :
          \E fetch \in Answers(github_url) :
             \E nows \in ClockReadings(clock, IF fetch.raised THEN 0 ELSE Len(fetch.value.events)) :
                analyze(github_url, fetch, nows)
    \/ \E seconds \in {TTL - 1, TTL} : Tick(seconds)

Spec == Init /\ [][Next]_vars

(***************************************************************************)
(* The validator alone                                                     *)
(***************************************************************************)
\* Lines 259-260 on the URL that shape d renders to.
Validate(d) ==
    LET validation == validate_github_url(Render(d))
    IN  /\ last' = <<[shape |-> d,
                      url |-> Render(d),
                      validation |-> validation,
                      username |-> IF validation.raised
                                   THEN <<>>
                                   ELSE <<extract_username_from_url(validation.value)>>]>>
        /\ UNCHANGED <<clock, cache, puts, user, results>>

NextUrl == \E d \in UrlShapes : Validate(d)

SpecUrl == Init /\ [][NextUrl]_vars

(***************************************************************************)
(* The aggregation alone                                                   *)
(***************************************************************************)
InitAgg ==
    /\ clock = Now0
    /\ cache = [k \in CacheKeys |-> <<>>]
    /\ puts = [u \in Requests |-> <<>>]
    /\ last = <<>>
    /\ user \in {<<u>> : u \in AggregatorInputs}
    /\ results = <<>>

\* Lines 266-339 on the data in user, the clock being read once per event.
Aggregate(nows) ==
    /\ results = <<>>
    /\ results' = <<analysis_results(Alice, user[1], nows)>>
    /\ clock' = IF nows = <<>> THEN clock ELSE nows[Len(nows)]
    /\ UNCHANGED <<cache, puts, last, user>>

NextAgg == \E nows \in ClockReadings(clock, Len(user[1].events)) : Aggregate(nows)

SpecAgg == InitAgg /\ [][NextAgg]_vars

(***************************************************************************)
(* Properties of the cache and of the endpoint (Spec)                      *)
(***************************************************************************)
\* The age, at the last request, of the entry last stored for its URL.
PriorAge == last[1].at - last[1].prior[1].at

Validation(url) == validate_github_url(url)

\* The error kind a message text stands for.
ErrorKind(text) ==
    IF text \in {"URL cannot be empty", "GitHub URL is required"}
    THEN "EmptyInput"
    ELSE IF text = "Invalid GitHub URL format" THEN "MalformedUrl" ELSE "Other"

\* C3, as claimed: a request whose URL the validator refuses, as empty or as
\* malformed, is answered 400 with an error of the validator's kind.
InputErrorsReachCaller ==
    (last # <<>> /\ Validation(last[1].url).raised) =>
        /\ last[1].response.status = 400
        /\ ErrorKind(last[1].response.error.text) = ErrorKind(Validation(last[1].url).exc.text)

\* C4, as claimed: a failed fetch is answered 400 when the profile does not
\* exist, 429 on a quota or authentication failure, 502 on any other upstream
\* failure, and by a generic failure without internal detail on anything else.
UpstreamErrorsPresentedByKind ==
    (last # <<>> /\ last[1].fetch # <<>> /\ last[1].fetch[1].raised) =>
        LET e == last[1].fetch[1].exc
            response == last[1].response
        IN  IF e.type = "GithubException"
            THEN response.status = (IF e.status = 404 THEN 400
                                    ELSE IF e.status = 403 THEN 429 ELSE 502)
            ELSE /\ response.status >= 500
                 /\ response.error.detail = ""

\* The user a valid URL names.
UsernameOf(url) == extract_username_from_url(Validation(url).value)

\* The last store under url before the last request.
StoreBefore(url) == IF url = last[1].url THEN last[1].prior ELSE puts[url]

IsProfileShape(d) ==
    /\ d.scheme \in {Http, Https}
    /\ d.host \in {GithubCom, WwwDot \o GithubCom}
    /\ d.segment # <<>>
    /\ \A i \in 1..Len(d.segment) : d.segment[i] \in IdentChars

\* C2, as claimed: every such URL, with or without a trailing slash and also
\* when further path segments or a query string follow, validates and yields
\* its first path segment as the user name.
ValidatorToleratesTrailingParts ==
    (last # <<>> /\ IsProfileShape(last[1].shape)
       /\ last[1].shape.rest \in {<<>>, Slash, RepoSegment, QueryString}) =>
        /\ ~last[1].validation.raised
        /\ last[1].username = <<last[1].shape.segment>>

\* C2, amended: every such URL with nothing after the user name but an optional
\* trailing slash validates and yields its first path segment as the user name;
\* when a further path segment or a query string follows, the validator refuses
\* it as an invalid GitHub URL.
ValidatorAcceptsBareProfileUrls ==
    (last # <<>> /\ IsProfileShape(last[1].shape)) =>
        /\ last[1].shape.rest \in {<<>>, Slash} =>
              /\ ~last[1].validation.raised
              /\ last[1].username = <<last[1].shape.segment>>
        /\ last[1].shape.rest \in {RepoSegment, QueryString} =>
              /\ last[1].validation.raised
              /\ last[1].validation.exc = ValueError("Invalid GitHub URL format", "")

\* C2 happens: "http://www.github.com/alice/" yields "alice".
ValidatorAcceptsBareProfileUrlsWitness ==
    /\ last # <<>>
    /\ last[1].url = Http \o SchemeSep \o WwwDot \o GithubCom \o Slash \o Alice \o Slash
    /\ last[1].username = <<Alice>>

(***************************************************************************)
(* Properties of the aggregation (SpecAgg)                                 *)
(***************************************************************************)
\* The sum of the star counts of the first n repositories, from the last down.
RECURSIVE SumStars(_, _)
SumStars(repos, n) ==
    IF n = 0 THEN 0 ELSE repos[n].stargazers_count + SumStars(repos, n - 1)

\* C5: total_stars is the sum of the star counts of all repositories, and
\* avg_stars_per_repo is total_stars / repo_count when repo_count > 0 and 0 when
\* repo_count = 0.
StarTotals ==
    results # <<>> =>
        LET r == results[1]
            total == SumStars(user[1].repos, Len(user[1].repos))
        IN  /\ r.total_stars = total
            /\ r.avg_stars_per_repo.den > 0
            /\ r.repo_count > 0 =>
                  r.avg_stars_per_repo.num * r.repo_count = total * r.avg_stars_per_repo.den
            /\ r.repo_count = 0 => r.avg_stars_per_repo.num = 0

\* C5 happens: 15 stars over 2 repositories average 7.5.
StarTotalsWitness ==
    /\ results # <<>>
    /\ Len(user[1].repos) = 2
    /\ results[1].total_stars = 15
    /\ results[1].repo_count = 2
    /\ results[1].avg_stars_per_repo.num * 2 = 15 * results[1].avg_stars_per_repo.den

\* Every (language, bytes) pair of every repository, in iteration order.
RECURSIVE Mentions(_)
Mentions(repos) ==
    IF repos = <<>> THEN <<>> ELSE Head(repos).languages \o Mentions(Tail(repos))

LanguagesOf(repos) == {Mentions(repos)[i][1] : i \in 1..Len(Mentions(repos))}

RECURSIVE SumBytes(_, _)
SumBytes(mentions, lang) ==
    IF mentions = <<>>
    THEN 0
    ELSE (IF Head(mentions)[1] = lang THEN Head(mentions)[2] ELSE 0)
         + SumBytes(Tail(mentions), lang)

TotalBytes(repos, lang) == SumBytes(Mentions(repos), lang)

FirstSeen(repos, lang) ==
    CHOOSE i \in 1..Len(Mentions(repos)) :
        /\ Mentions(repos)[i][1] = lang
        /\ \A j \in 1..(i - 1) : Mentions(repos)[j][1] # lang

\* Language a ranks before language b: more bytes in total, or as many and seen first.
RanksBefore(repos, a, b) ==
    \/ TotalBytes(repos, a) > TotalBytes(repos, b)
    \/ /\ TotalBytes(repos, a) = TotalBytes(repos, b)
       /\ FirstSeen(repos, a) < FirstSeen(repos, b)

\* C6: top_languages has length min(5, number of distinct languages), holds only
\* languages of the repositories, and is ordered by descending byte total, equal
\* totals by first appearance; no language left out ranks before one listed.
TopLanguagesRanked ==
    results # <<>> =>
        LET top == results[1].top_languages
            repos == user[1].repos
            langs == LanguagesOf(repos)
        IN  /\ Len(top) = (IF Cardinality(langs) < 5 THEN Cardinality(langs) ELSE 5)
            /\ \A i \in 1..Len(top) : top[i] \in langs
            /\ \A i, j \in 1..Len(top) : i < j => RanksBefore(repos, top[i], top[j])
            /\ \A i \in 1..Len(top) :
                  \A lang \in langs \ {top[k] : k \in 1..Len(top)} :
                      RanksBefore(repos, top[i], lang)

\* C6 happens: more than five languages, and two of the five listed tie in bytes.
TopLanguagesRankedWitness ==
    /\ results # <<>>
    /\ Cardinality(LanguagesOf(user[1].repos)) > 5
    /\ Len(results[1].top_languages) = 5
    /\ \E i \in 1..4 :
          TotalBytes(user[1].repos, results[1].top_languages[i])
              = TotalBytes(user[1].repos, results[1].top_languages[i + 1])

\* The repositories of the list whose language mapping has lang.
ReposWith(repos, lang) == {i \in 1..Len(repos) : lang \in DictKeys(repos[i].languages)}

\* C7, as claimed: the count of a language in repo_languages is the number of
\* repositories whose mapping has it, and never exceeds repo_count.
LanguageCountsWithinRepoCount ==
    results # <<>> =>
        \A i \in 1..Len(results[1].repo_languages) :
            LET entry == results[1].repo_languages[i]
            IN  /\ entry.count = Cardinality(ReposWith(user[1].repos, entry.language))
                /\ entry.count <= results[1].repo_count

\* C7, amended: repo_languages has one entry for every language of the
\* repositories; its count is the number of repositories of the list whose
\* mapping has the language, whatever the byte counts, and never exceeds the
\* length of the list (repo_count is the profile's own figure and may be lower).
LanguageCountsWithinList ==
    results # <<>> =>
        LET counted == results[1].repo_languages
            repos == user[1].repos
        IN  /\ {counted[i].language : i \in 1..Len(counted)} = LanguagesOf(repos)
            /\ \A i, j \in 1..Len(counted) :
                  counted[i].language = counted[j].language => i = j
            /\ \A i \in 1..Len(counted) :
                  /\ counted[i].count = Cardinality(ReposWith(repos, counted[i].language))
                  /\ counted[i].count <= Len(repos)

\* C7 happens: a language of two repositories, with different byte counts, is
\* counted twice while the profile reports fewer repositories.
LanguageCountsWithinListWitness ==
    /\ results # <<>>
    /\ \E i \in 1..Len(results[1].repo_languages) :
          /\ results[1].repo_languages[i].count = 2
          /\ results[1].repo_languages[i].language = "Go"
          /\ results[1].repo_count < 2
    /\ DictGet(user[1].repos[1].languages, "Go", 0) # DictGet(user[1].repos[2].languages, "Go", 0)

\* Event k lies in the 30 days that end at now; closed tells whether the far
\* edge of the window belongs to it.
InWindow(created_at, now, closed) ==
    /\ created_at <= now
    /\ \/ created_at > now - ActivityWindowDays * SecondsPerDay
       \/ closed /\ created_at = now - ActivityWindowDays * SecondsPerDay

\* The activity the events give for one now.
ActivityIs(r, events, now, closed) ==
    LET recent == {k \in 1..Len(events) : InWindow(events[k], now, closed)}
    IN  /\ {r.activity_dates[i] : i \in 1..Len(r.activity_dates)}
              = {DateOf(events[k]) : k \in recent}
        /\ \A i \in 1..(Len(r.activity_dates) - 1) : r.activity_dates[i] < r.activity_dates[i + 1]
        /\ Len(r.activity_counts) = Len(r.activity_dates)
        /\ \A i \in 1..Len(r.activity_dates) :
              r.activity_counts[i]
                  = Cardinality({k \in recent : DateOf(events[k]) = r.activity_dates[i]})

\* C8, as claimed: there is one now, between the start and the end of the
\* aggregation, such that activity_dates are the dates, ascending, of the events
\* of the 30 days ending at that now, and activity_counts their numbers of events.
ActivityOfOneWindow ==
    results # <<>> =>
        \E now \in Now0..clock, closed \in BOOLEAN :
            ActivityIs(results[1], user[1].events, now, closed)

\* The first repository that has the highest star count.
FirstMostStarred(repos) ==
    CHOOSE i \in 1..Len(repos) :
        /\ \A j \in 1..Len(repos) : repos[j].stargazers_count <= repos[i].stargazers_count
        /\ \A j \in 1..(i - 1) : repos[j].stargazers_count < repos[i].stargazers_count

\* C9, as claimed: for a non-empty repository list most_starred_repo is the name
\* of the first repository that has the highest star count, also when all star
\* counts are equal.
MostStarredIsFirstMaximum ==
    (results # <<>> /\ user[1].repos # <<>>) =>
        results[1].most_starred_repo = <<user[1].repos[FirstMostStarred(user[1].repos)].name>>

====
